---- MODULE Spec2Model ----
(***************************************************************************)
(* Model of src/portrisk/risk.py: the two Value-at-Risk estimators         *)
(* cornish_fisher_var and pot_var, called by a client on one sample.       *)
(*                                                                         *)
(* Numbers.  Returns are integers (one unit = 0.005 in the fixture of the  *)
(* specification).  A threshold is kept in hundredths of that unit, so     *)
(* that the linear-interpolation percentile of numpy is exact.  alpha is   *)
(* the rational <<numerator, denominator>>.  A float that the code holds   *)
(* is [k, v]: k = "num" (the value v), "nan", or "none" (Python's None).   *)
(* The values of the library routines that have no closed form (the       *)
(* normal quantile, the GPD fit and its inverse CDF) are kept as terms     *)
(* over their arguments.  Arithmetic is exact: floating-point rounding is *)
(* not modelled.                                                           *)
(***************************************************************************)
EXTENDS Integers, Sequences, FiniteSets

VARIABLES
    build,      \* behaviour of the installed numpy/scipy on degenerate data
    returns,    \* the caller's array object, handed to the functions
    given,      \* the content the caller put into that array
    frame,      \* arguments and locals of the last call
    result,     \* outcome of the last call
    ref         \* an earlier call kept by the caller for comparison

vars == <<build, returns, given, frame, result, ref>>

----------------------------------------------------------------------------
(* Bounds of the model *)

MaxLen == 3

Values == {-1, 0, 1}

\* the series of the concrete scenario, in units of 0.005
Fixture == <<2, -4, 3, -2, 4, -6, 1, 2, -3, 5>>

Samples == UNION {[1..n -> Values] : n \in 0..MaxLen} \cup {Fixture}

DefaultAlpha == <<1, 20>>

Alphas == {<<0, 1>>, DefaultAlpha, <<1, 2>>, <<19, 20>>, <<3, 2>>}

PairAlphas == {<<0, 1>>, DefaultAlpha, <<19, 20>>}

----------------------------------------------------------------------------
(* Floats *)

Num(v) == [k |-> "num", v |-> v]
NaN == [k |-> "nan", v |-> 0]
None == [k |-> "none", v |-> 0]

Pct == 95
Cent == 100

AlphaInUnit(a) == 0 < a[1] /\ a[1] < a[2]

----------------------------------------------------------------------------
(* numpy helpers *)

RECURSIVE Insert(_, _)
Insert(x, s) ==
    IF s = <<>> THEN <<x>>
    ELSE IF x <= Head(s) THEN <<x>> \o s
    ELSE <<Head(s)>> \o Insert(x, Tail(s))

RECURSIVE Sorted(_)
Sorted(s) == IF s = <<>> THEN <<>> ELSE Insert(Head(s), Sorted(Tail(s)))

RECURSIVE Sum(_)
Sum(s) == IF s = <<>> THEN 0 ELSE Head(s) + Sum(Tail(s))

\* losses = -returns : a new array, element-wise negation
Negated(s) == [i \in 1..Len(s) |-> -s[i]]

\* np.percentile(a, q), default (linear) method, in hundredths; nan when empty
Percentile(a, q) ==
    IF Len(a) = 0 THEN NaN
    ELSE LET s == Sorted(a)
             pos == q * (Len(a) - 1)
             f == pos \div Cent
             r == pos % Cent
         IN  IF r = 0 THEN Num(Cent * s[f + 1])
             ELSE Num(Cent * s[f + 1] + r * (s[f + 2] - s[f + 1]))

----------------------------------------------------------------------------
(* Outcomes of a call *)

NoResult == [kind |-> "none", err |-> "", cls |-> "-", num |-> 0, den |-> 1, term |-> <<>>]

Raise(e) == [kind |-> "raise", err |-> e, cls |-> "-", num |-> 0, den |-> 1, term |-> <<>>]

\* a returned float: nan, the exact rational num/den, or a term over the inputs
FloatNaN == [kind |-> "float", err |-> "", cls |-> "nan", num |-> 0, den |-> 1, term |-> <<>>]

FloatExact(n, d) == [kind |-> "float", err |-> "", cls |-> "exact", num |-> n, den |-> d, term |-> <<>>]

FloatTerm(t) == [kind |-> "float", err |-> "", cls |-> "sym", num |-> 0, den |-> 1, term |-> t]

NoFrame ==
    [fn |-> "none", thrArg |-> None, alpha |-> <<0, 1>>, losses |-> <<>>,
     threshold |-> None, excesses |-> <<>>, n_excess |-> 0, n_total |-> 0,
     p |-> <<0, 0>>, fitCalled |-> FALSE,
     mean |-> None, m2 |-> 0, skew |-> None, kurt |-> None, z |-> "none"]

\* what the installed libraries do where their versions differ:
\*   constMoments: stats.skew / stats.kurtosis of a constant sample give
\*                 0 and -3 ("zero") or nan and nan ("nan")
\*   emptyFit:     genpareto.fit of an empty array raises ValueError
\*                 ("raises") or returns parameters ("returns")
Builds == [constMoments : {"zero", "nan"}, emptyFit : {"raises", "returns"}]

----------------------------------------------------------------------------
(* pot_var *)

\* the negation done in place, on the caller's array
CallerArrayNegatedInPlace(r) == Negated(r)

\* the caller's array after a call: both functions only read it
\* (losses = -returns builds a new array)
CallerArrayAfter(r) == r

\* the default threshold taken at the wrong tail of the losses
ThresholdWrongTail(thrArg, losses) ==
    IF thrArg.k = "none" THEN Percentile(losses, Cent - Pct) ELSE thrArg

\* if threshold is None: threshold = np.percentile(losses, 95)
Threshold(thrArg, losses) ==
    IF thrArg.k = "none" THEN Percentile(losses, Pct) ELSE thrArg

\* the comparison made non-strict
IsExcessOrEqual(l, thr) == thr.k = "num" /\ Cent * l >= thr.v

\* losses > threshold, element-wise; a comparison with nan is False
IsExcess(l, thr) == thr.k = "num" /\ Cent * l > thr.v

\* excesses = losses[losses > threshold] - threshold   (in hundredths)
Excesses(losses, thr) ==
    LET Keep(l) == IsExcess(l, thr)
        kept == SelectSeq(losses, Keep)
    IN  [i \in 1..Len(kept) |-> Cent * kept[i] - thr.v]

\* exact fractions <<numerator, denominator>>, denominators kept positive
RSub(x, y) == <<x[1] * y[2] - y[1] * x[2], x[2] * y[2]>>

RDiv(x, y) == <<x[1] * y[2], x[2] * y[1]>>

\* prob_exceed = n_excess / n_total
ProbExceed(n_excess, n_total) == <<n_excess, n_total>>

\* a sign slip in the tail probability: (prob_exceed - alpha) / prob_exceed
InversionProbabilityFlipped(a, prob_exceed) ==
    RDiv(RSub(prob_exceed, a), prob_exceed)

\* (alpha - (1 - prob_exceed)) / prob_exceed, evaluated when n_excess > 0
InversionProbability(a, prob_exceed) ==
    RDiv(RSub(a, RSub(<<1, 1>>, prob_exceed)), prob_exceed)

\* -(threshold + genpareto.ppf(p, c, loc=0, scale=scale)) for the fitted c, scale:
\* ppf is nan outside [0,1], 0 at p = 0, and elsewhere a value of the fit,
\* kept as a term over the threshold, p and the excesses
PotValue(thr, p, excesses) ==
    IF p[1] < 0 \/ p[1] > p[2] THEN FloatNaN
    ELSE IF p[1] = 0 THEN FloatExact(-thr.v, Cent)
    ELSE FloatTerm(<<thr.v, p[1], p[2]>> \o excesses)

\* lines 75-84 when no loss exceeds the threshold
PotNoExcess(b) ==
    IF b.emptyFit = "raises" THEN Raise("ValueError") ELSE Raise("ZeroDivisionError")

PotFrame(r, thrArg, a) ==
    LET losses == Negated(r)
        threshold == Threshold(thrArg, losses)
        excesses == Excesses(losses, threshold)
        n_excess == Len(excesses)
        n_total == Len(losses)
    IN  [fn |-> "pot_var", thrArg |-> thrArg, alpha |-> a, losses |-> losses,
         threshold |-> threshold, excesses |-> excesses,
         n_excess |-> n_excess, n_total |-> n_total,
         p |-> IF n_excess = 0 THEN <<0, 0>>
               ELSE InversionProbability(a, ProbExceed(n_excess, n_total)),
         fitCalled |-> TRUE,
         mean |-> None, m2 |-> 0, skew |-> None, kurt |-> None, z |-> "none"]

PotResult(b, f) ==
    IF f.n_excess = 0 THEN PotNoExcess(b)
    ELSE PotValue(f.threshold, f.p, f.excesses)

----------------------------------------------------------------------------
(* cornish_fisher_var *)

\* deviations from the mean scaled by n: n*x - sum(x)
Deviations(r) == LET s == Sum(r) IN [i \in 1..Len(r) |-> Len(r) * r[i] - s]

Power(s, e) == [i \in 1..Len(s) |-> IF e = 2 THEN s[i] * s[i]
                                    ELSE IF e = 3 THEN s[i] * s[i] * s[i]
                                    ELSE s[i] * s[i] * s[i] * s[i]]

\* np.mean: nan on an empty array, else sum/n (kept as the sum)
Mean(r) == IF Len(r) = 0 THEN NaN ELSE Num(Sum(r))

\* stats.skew / stats.kurtosis(fisher=True): nan on an empty array; on a
\* constant sample what the build gives; else a term over the central moment
Skew(b, r) ==
    IF Len(r) = 0 THEN NaN
    ELSE IF Sum(Power(Deviations(r), 2)) = 0
         THEN (IF b.constMoments = "zero" THEN Num(0) ELSE NaN)
    ELSE [k |-> "sym", v |-> Sum(Power(Deviations(r), 3))]

Kurtosis(b, r) ==
    IF Len(r) = 0 THEN NaN
    ELSE IF Sum(Power(Deviations(r), 2)) = 0
         THEN (IF b.constMoments = "zero" THEN Num(-3) ELSE NaN)
    ELSE [k |-> "sym", v |-> Sum(Power(Deviations(r), 4))]

\* stats.norm.ppf(alpha): finite inside (0,1), -inf at 0, +inf at 1, else nan
NormPpf(a) ==
    IF AlphaInUnit(a) THEN "finite"
    ELSE IF a[1] = 0 \/ a[1] = a[2] THEN "inf"
    ELSE "nan"

CfFrame(b, r, a) ==
    [fn |-> "cornish_fisher_var", thrArg |-> None, alpha |-> a, losses |-> <<>>,
     threshold |-> None, excesses |-> <<>>, n_excess |-> 0, n_total |-> 0,
     p |-> <<0, 0>>, fitCalled |-> FALSE,
     mean |-> Mean(r), m2 |-> Sum(Power(Deviations(r), 2)),
     skew |-> Skew(b, r), kurt |-> Kurtosis(b, r), z |-> NormPpf(a)]

\* z_cf is finite iff z, skew and kurt are: an infinite z gives inf - inf = nan
\* in z**3 - 3*z.  var = -(mean + z_cf * sigma); with sigma = 0 and z_cf finite
\* that is -mean, else a term over the moments and alpha.
CfResult(f, r) ==
    IF f.mean.k = "nan" \/ f.z # "finite" \/ f.skew.k = "nan" \/ f.kurt.k = "nan"
    THEN FloatNaN
    ELSE IF f.m2 = 0 THEN FloatExact(-f.mean.v, Len(r))
    ELSE FloatTerm(<<Len(r), f.mean.v, f.m2, f.skew.v, f.kurt.v, f.alpha[1], f.alpha[2]>>)

----------------------------------------------------------------------------
(* The client *)

Grid == {Num(50 * k) : k \in -3..3}

\* thresholds a client passes: None, a grid around the losses, and the
\* 95th-percentile loss of its sample
Thresholds(s) == {None, Percentile(Negated(s), Pct)} \cup Grid

PairThresholds(s) == {None, Percentile(Negated(s), Pct), Num(0)}

NoCall == [f |-> NoFrame, out |-> NoResult]

Init ==
    /\ build \in Builds
    /\ returns \in Samples
    /\ given = returns
    /\ frame = NoFrame
    /\ result = NoResult
    /\ ref = NoCall

CallCornishFisher(A) ==
    \E a \in A :
        LET f == CfFrame(build, returns, a) IN
        /\ frame' = f
        /\ result' = CfResult(f, returns)
        /\ returns' = CallerArrayAfter(returns)
        /\ UNCHANGED <<build, given, ref>>

CallPotVar(T, A) ==
    \E t \in T, a \in A :
        LET f == PotFrame(returns, t, a) IN
        /\ frame' = f
        /\ result' = PotResult(build, f)
        /\ returns' = CallerArrayAfter(returns)
        /\ UNCHANGED <<build, given, ref>>

\* the caller keeps the last call to compare a later one with it
KeepCall ==
    /\ frame.fn # "none"
    /\ ref' = [f |-> frame, out |-> result]
    /\ UNCHANGED <<build, returns, given, frame, result>>

CfStep == CallCornishFisher(Alphas)

PotStep == CallPotVar(Thresholds(given), Alphas)

Next == CfStep \/ PotStep

Spec == Init /\ [][Next]_vars

CfPairStep == CallCornishFisher(PairAlphas)

PotPairStep == CallPotVar(PairThresholds(given), PairAlphas)

NextPair == CfPairStep \/ PotPairStep \/ KeepCall

SpecPair == Init /\ [][NextPair]_vars

----------------------------------------------------------------------------
(* Properties *)

IsPot == frame.fn = "pot_var"
IsCf == frame.fn = "cornish_fisher_var"

PBelowZero == frame.p[1] < 0
PAboveOne == frame.p[1] > frame.p[2]

Finite(out) == out.kind = "float" /\ out.cls \in {"exact", "sym"}

Constant(s) == \A i \in 1..Len(s) : s[i] = s[1]

\* the indices of the caller's sample whose loss is strictly above the threshold
Above(thr) == {i \in 1..Len(given) : thr.k = "num" /\ Cent * (-given[i]) > thr.v}

\* the 95th-percentile loss of the caller's sample
P95Loss == Percentile(Negated(given), Pct)

\* C1: whenever no loss is strictly greater than the threshold, pot_var fails
\* with InsufficientTailData and never reaches the GPD fit.
C1_InsufficientTailData ==
    (IsPot /\ frame.n_excess = 0) =>
        /\ result.kind = "raise"
        /\ result.err = "InsufficientTailData"
        /\ ~frame.fitCalled

\* C2: with alpha in (0,1) and at least one excess, an inversion probability
\* outside [0,1] makes pot_var fail with InvalidTailProbability.
C2_InvalidTailProbability ==
    (IsPot /\ frame.n_excess >= 1 /\ AlphaInUnit(frame.alpha)
        /\ (PBelowZero \/ PAboveOne)) =>
        (result.kind = "raise" /\ result.err = "InvalidTailProbability")

\* C3: malformed arguments are rejected with InvalidInput: cornish_fisher_var on
\* fewer than 2 elements or alpha outside (0,1), pot_var on an empty sample or
\* alpha outside (0,1).
C3_InvalidInput ==
    (\/ IsCf /\ (Len(given) < 2 \/ ~AlphaInUnit(frame.alpha))
     \/ IsPot /\ (Len(given) = 0 \/ ~AlphaInUnit(frame.alpha))) =>
        (result.kind = "raise" /\ result.err = "InvalidInput")

\* C4: on the 10-element series, default threshold, alpha = 0.05, pot_var
\* returns a finite float: there is an excess and p lies in [0,1].
C4_FixtureFinite ==
    (IsPot /\ given = Fixture /\ frame.thrArg = None /\ frame.alpha = DefaultAlpha) =>
        /\ Finite(result)
        /\ frame.n_excess >= 1
        /\ ~PBelowZero /\ ~PAboveOne

\* C5: pot_var with threshold=None gives the same outcome, excesses, n_excess,
\* prob_exceed and p as pot_var with the threshold set to the 95th-percentile
\* loss of the same sample.
C5_DefaultThresholdSame ==
    (/\ ref.f.fn = "pot_var" /\ IsPot
     /\ ref.f.alpha = frame.alpha
     /\ ref.f.thrArg = None
     /\ frame.thrArg = P95Loss) =>
        /\ ref.out = result
        /\ ref.f.excesses = frame.excesses
        /\ ref.f.n_excess = frame.n_excess
        /\ ref.f.n_total = frame.n_total
        /\ ref.f.p = frame.p

C5_Witness ==
    /\ ref.f.fn = "pot_var" /\ IsPot
    /\ ref.f.alpha = frame.alpha
    /\ ref.f.thrArg = None
    /\ frame.thrArg = P95Loss
    /\ frame.n_excess >= 1
    /\ Finite(result)

\* C6: on a constant sample of at least 2 elements with alpha in (0,1),
\* cornish_fisher_var returns exactly -k and no NaN enters skew, kurt or the
\* result.
C6_ConstantSample ==
    (IsCf /\ Len(given) >= 2 /\ Constant(given) /\ AlphaInUnit(frame.alpha)) =>
        /\ result.kind = "float" /\ result.cls = "exact"
        /\ result.num = -given[1] * result.den
        /\ frame.skew.k # "nan"
        /\ frame.kurt.k # "nan"

C8_StrictExcess ==
    IsPot =>
        /\ \A i \in 1..Len(frame.excesses) : frame.excesses[i] > 0
        /\ frame.n_excess = Cardinality(Above(frame.threshold))
        /\ frame.n_total = Len(given)
        /\ 0 <= frame.n_excess /\ frame.n_excess <= frame.n_total
        /\ \A v \in {frame.excesses[i] : i \in 1..Len(frame.excesses)} :
              Cardinality({i \in 1..Len(frame.excesses) : frame.excesses[i] = v})
            = Cardinality({i \in Above(frame.threshold) :
                              Cent * (-given[i]) - frame.threshold.v = v})

C8_Witness ==
    /\ IsPot
    /\ frame.n_excess >= 1
    /\ \E i \in 1..Len(given) :
          frame.threshold.k = "num" /\ Cent * (-given[i]) = frame.threshold.v

C10_DefaultThresholdTail ==
    (IsPot /\ frame.thrArg = None /\ frame.n_total >= 1) =>
        /\ frame.n_excess
             <= frame.n_total - 1 - ((Pct * (frame.n_total - 1)) \div Cent)
        /\ frame.n_total = 1 => frame.n_excess = 0
        /\ frame.n_total >= 2 => 2 * frame.n_excess <= frame.n_total
        /\ (frame.alpha = DefaultAlpha /\ frame.n_excess >= 1) => PBelowZero

C10_Witness ==
    /\ IsPot /\ frame.thrArg = None
    /\ frame.alpha = DefaultAlpha
    /\ frame.n_excess >= 1
    /\ PBelowZero
    /\ result = FloatNaN

====
